---- MODULE Spec2Model ----
(***************************************************************************)
(* Model of image_grabber.py: candidate selection (choose_best_url), the   *)
(* download manager (download_one, get_session, guess_ext_from_headers),   *)
(* the discovery backends and the orchestrator (run).                      *)
(*                                                                         *)
(* Python strings are modelled as sequences of tokens: a URL such as       *)
(* "http://h/a.JPG" is <<"http:", "//h/a", ".JPG">>, and `x in s` is       *)
(* contiguous containment of the token sequence x in s.  None is kept in   *)
(* the integer domain as Null and in the string domain as NoneStr.         *)
(***************************************************************************)
EXTENDS Integers, Sequences, FiniteSets, TLC

\* ------------------------------------------------------------------ bounds
MaxRetriesBound == 2
MaxChunks == 2
MaxDim == 2
MaxWorkers == 2
MaxLimit == 2
MaxItems == 3
MaxThumbs == 1
MaxCseLimit == 11
MaxTicks == 8

VARIABLES
  sel,          \* choose_best_url under test: [result, choice, done]
  dl,           \* per worker thread: the frame of its download_one call
  files,        \* out_dir: file name -> [size, total, by]
  session,      \* _thread_local.session is set, per thread
  sessCreated,  \* number of requests.Session() constructed, per thread
  hist,         \* finished download_one calls of the repeated-download scenario
  cfg,          \* the arguments of run
  rpc,          \* where run is
  dirMade,      \* out_dir exists
  results,      \* run's results list
  calls,        \* backend invocations so far, with their arguments
  be,           \* the frame of the running backend
  raised,       \* exceptions that backends raised into run, in order
  ex,           \* the ThreadPoolExecutor and run's loop over ex.map
  future,       \* job index -> state of its future
  report        \* what run printed last, or how it ended

runVars == <<cfg, rpc, dirMade, results, calls, be, raised, ex, future, report>>
vars == <<sel, dl, files, session, sessCreated, hist, runVars>>
rest == <<cfg, rpc, dirMade, results, calls, ex, future, report>>
dlVars == <<sel, dl, files, session, sessCreated, hist>>

Workers == 1..MaxWorkers
Threads == 0..MaxWorkers   \* 0 is the main thread

\* ------------------------------------------------------- Python primitives
Null == -1
NoneStr == <<"<None>">>
EmptyStr == <<>>

\* truthiness of an optional string / optional int
StrTruthy(s) == s # NoneStr /\ s # EmptyStr
IntTruthy(n) == n # Null /\ n # 0

\* Python `a or b`
StrOr(a, b) == IF StrTruthy(a) THEN a ELSE b
IntOr(a, b) == IF IntTruthy(a) THEN a ELSE b

\* str.lower() on one token, and on a string
LowerTok(t) ==
  CASE t = ".JPG" -> ".jpg"
    [] t = ".PNG" -> ".png"
    [] t = "IMAGE/" -> "image/"
    [] t = "PNG" -> "png"
    [] t = "Jpeg" -> "jpeg"
    [] OTHER -> t

Lower(s) == [i \in 1..Len(s) |-> LowerTok(s[i])]

\* Python `x in s` for strings
Contains(s, x) ==
  \E i \in 0..(Len(s) - Len(x)) : \A j \in 1..Len(x) : s[i + j] = x[j]

\* position of the first token of s that is in toks, or 0
RECURSIVE FirstIn(_, _, _)
FirstIn(s, toks, i) ==
  IF i > Len(s) THEN 0
  ELSE IF s[i] \in toks THEN i
  ELSE FirstIn(s, toks, i + 1)

\* --------------------------------------------------------- choose_best_url
Keys == <<"image", "url", "thumbnail">>

\* line 102: (result.get(key) or result.get("image")) if key == "url" else result.get(key)
SlotUrl(result, key) ==
  IF key = "url" THEN StrOr(result.url, result.image) ELSE result[key]

RecW(result) == IntOr(result.width, result.image_width)
RecH(result) == IntOr(result.height, result.image_height)

\* sort key of line 109: (x[1] or 0) * (x[2] or 0)
Area(c) == IntOr(c.w, 0) * IntOr(c.h, 0)

\* candidates of lines 100-106, in encounter order
RECURSIVE Candidates(_, _)
Candidates(result, k) ==
  IF k > Len(Keys) THEN <<>>
  ELSE LET u == SlotUrl(result, Keys[k])
       IN (IF StrTruthy(u)
           THEN <<[url |-> u, w |-> RecW(result), h |-> RecH(result), key |-> Keys[k]]>>
           ELSE <<>>) \o Candidates(result, k + 1)

\* a sort that puts equal keys in reverse encounter order
RECURSIVE InsertDescUnstable(_, _)
InsertDescUnstable(sorted, c) ==
  IF sorted = <<>> THEN <<c>>
  ELSE IF Area(Head(sorted)) > Area(c)
       THEN <<Head(sorted)>> \o InsertDescUnstable(Tail(sorted), c)
       ELSE <<c>> \o sorted

\* list.sort(key=..., reverse=True) is stable: equal keys keep encounter order
RECURSIVE InsertDesc(_, _)
InsertDesc(sorted, c) ==
  IF sorted = <<>> THEN <<c>>
  ELSE IF Area(Head(sorted)) >= Area(c)
       THEN <<Head(sorted)>> \o InsertDesc(Tail(sorted), c)
       ELSE <<c>> \o sorted

RECURSIVE SortDesc(_, _)
SortDesc(cs, acc) ==
  IF cs = <<>> THEN acc ELSE SortDesc(Tail(cs), InsertDesc(acc, Head(cs)))

NoChoice == [url |-> NoneStr, w |-> Null, h |-> Null, key |-> "none"]

choose_best_url(result) ==
  LET cs == Candidates(result, 1)
  IN IF cs = <<>> THEN NoChoice ELSE Head(SortDesc(cs, <<>>))

\* ---------------------------------------------------- guess_ext_from_headers
\* headers.get("Content-Type", "") is the token string ct (EmptyStr when absent)
guess_ext_from_headers(ct, url) ==
  LET content_type == Lower(ct)
      u == Lower(url)
  IN IF Contains(content_type, <<"image/", "jpeg">>) \/ Contains(u, <<".jpg">>)
        \/ Contains(u, <<".jpeg">>) THEN ".jpg"
     ELSE IF Contains(content_type, <<"image/", "png">>) \/ Contains(u, <<".png">>) THEN ".png"
     ELSE IF Contains(content_type, <<"image/", "webp">>) \/ Contains(u, <<".webp">>) THEN ".webp"
     ELSE IF Contains(content_type, <<"image/", "gif">>) \/ Contains(u, <<".gif">>) THEN ".gif"
     ELSE ".img"

\* ------------------------------------------------------ file names (l.321-322)
\* hashlib.sha1(url).hexdigest()[:16]: injective on the modelled URLs
Sha1Hex16(url) == <<"sha1">> \o url

\* a name without the index of the job
name_base_no_idx(idx, choice) ==
  <<0, IntOr(choice.w, 0), IntOr(choice.h, 0), Sha1Hex16(choice.url)>>

\* f"{idx:04d}_{w or 0}x{h or 0}_{hsh}"
name_base(idx, choice) ==
  <<idx, IntOr(choice.w, 0), IntOr(choice.h, 0), Sha1Hex16(choice.url)>>

FileName(base, ext) == [base |-> base, ext |-> ext]
NoFile == [base |-> <<>>, ext |-> ""]

\* --------------------------------------------------- data: URLs (l.325-349)
\* a prefix test that no URL passes
IsDataUrlNever(url) == Len(url) >= 1 /\ url[1] = "data://"

IsDataUrl(url) == Len(url) >= 1 /\ url[1] = "data:"

SemiToks == {";base64", ";charset"}

\* url.split(",", 1): position of the first comma, 0 when there is none
CommaPos(url) == FirstIn(url, {","}, 1)

DataHeader(url) == SubSeq(url, 1, CommaPos(url) - 1)
DataPayload(url) == SubSeq(url, CommaPos(url) + 1, Len(url))

\* header.split(";")[0][5:].lower() when ";base64" in header, else ""
DataMime(header) ==
  IF Contains(header, <<";base64">>)
  THEN LET p == FirstIn(header, SemiToks, 1)
           first == IF p = 0 THEN header ELSE SubSeq(header, 1, p - 1)
       IN Lower(SubSeq(first, 2, Len(first)))
  ELSE EmptyStr

\* extension of lines 332-340
DataExt(mime) ==
  IF Contains(mime, <<"jpeg">>) THEN ".jpg"
  ELSE IF Contains(mime, <<"png">>) THEN ".png"
  ELSE IF Contains(mime, <<"webp">>) THEN ".webp"
  ELSE IF Contains(mime, <<"gif">>) THEN ".gif"
  ELSE ".img"

\* base64.b64decode: a payload token of 4 characters decodes to bytes, the
\* empty payload to b"", a token of 1 character raises binascii.Error
B64Decode(p) ==
  IF p = <<>> THEN [ok |-> TRUE, len |-> 0]
  ELSE IF \A i \in 1..Len(p) : p[i] = "AAAA" THEN [ok |-> TRUE, len |-> 1]
  ELSE [ok |-> FALSE, len |-> 0]

\* whether lines 327-331 raise (no comma to unpack, or bad base64)
DataDecodeFails(url) == CommaPos(url) = 0 \/ ~B64Decode(DataPayload(url)).ok

\* ------------------------------------------------------------- raw results
Raw(image, url, thumbnail, width, height, image_width, image_height) ==
  [image |-> image, url |-> url, thumbnail |-> thumbnail, width |-> width,
   height |-> height, image_width |-> image_width, image_height |-> image_height]

NoResult == Raw(NoneStr, NoneStr, NoneStr, Null, Null, Null, Null)

U_plain == <<"http:", "//h/a">>
U_png == <<"http:", "//h/b", ".PNG">>
U_thumb == <<"http:", "//t/a", ".jpeg">>
D_png == <<"data:", "image/", "png", ";base64", ",", "AAAA">>
D_nob64 == <<"data:", "image/", "Jpeg", ",", "AAAA">>
D_nocomma == <<"data:", "IMAGE/", "PNG", ";base64">>
D_badpad == <<"data:", "image/", "gif", ";base64", ",", "A">>
D_empty == <<"data:", "image/", "webp", ";charset", ";base64", ",">>

HttpUrls == {U_plain, U_png}
DataUrls == {D_png, D_nob64, D_nocomma, D_badpad, D_empty}

\* ------------------------------------------------------------ download_one
IdleDl ==
  [pc |-> "idle", idx |-> 0, result |-> NoResult, max_retries |-> 0,
   choice |-> NoChoice, base |-> <<>>, attempt |-> 0, out_file |-> NoFile,
   ret |-> NoFile, gets |-> 0, sleeps |-> <<>>, opens |-> 0,
   newSess |-> 0, sess |-> Null, exts |-> {}, last_err |-> FALSE]

\* a call download_one((idx, result), out_dir, timeout, verbose, max_retries)
CallDl(idx, result, max_retries) ==
  [IdleDl EXCEPT !.pc = "start", !.idx = idx, !.result = result,
                 !.max_retries = max_retries]

Exists(f) == f \in DOMAIN files

\* an existence test that looks for the file under the wrong name
NonEmptyNever(f) == Exists(NoFile) /\ files[NoFile].size > 0

\* out_file.exists() and out_file.stat().st_size > 0
NonEmpty(f) == Exists(f) /\ files[f].size > 0

\* open(out_file, "wb"): creates or truncates
Opened(f, total, by) == (f :> [size |-> 0, total |-> total, by |-> by]) @@ files

Return(t, d, ret) == dl' = [dl EXCEPT ![t] = [d EXCEPT !.pc = "done", !.ret = ret]]

\* lines 316-319: no usable URL
DlNoUrl(t) ==
  /\ dl[t].pc = "start"
  /\ choose_best_url(dl[t].result) = NoChoice
  /\ Return(t, dl[t], NoFile)
  /\ UNCHANGED <<runVars, sel, files, session, sessCreated, hist>>

\* lines 320-349: inline data URL, decoded and written without HTTP
DlData(t) ==
  /\ dl[t].pc = "start"
  /\ LET choice == choose_best_url(dl[t].result)
         url == choice.url
         base == name_base(dl[t].idx, choice)
         d == [dl[t] EXCEPT !.choice = choice, !.base = base]
     IN /\ choice # NoChoice
        /\ IsDataUrl(url)
        /\ IF DataDecodeFails(url)
           THEN /\ Return(t, d, NoFile)
                /\ UNCHANGED files
           ELSE LET data == B64Decode(DataPayload(url))
                    out == FileName(base, DataExt(DataMime(DataHeader(url))))
                IN IF ~Exists(out) \/ files[out].size = 0
                   THEN \/ /\ files' = (out :> [size |-> data.len, total |-> data.len,
                                                by |-> dl[t].idx]) @@ files
                           /\ Return(t, [d EXCEPT !.out_file = out, !.opens = @ + 1], out)
                        \/ \* open() raises OSError
                           /\ Return(t, [d EXCEPT !.out_file = out], NoFile)
                           /\ UNCHANGED files
                   ELSE /\ Return(t, [d EXCEPT !.out_file = out], out)
                        /\ UNCHANGED files
  /\ UNCHANGED <<runVars, sel, session, sessCreated, hist>>

\* one attribute that all threads share
ThreadLocalShared(t) == 0

\* line 62: the attributes of _thread_local that thread t reads and writes
\* (0 is the main thread)
ThreadLocal(t) == t

\* lines 351-353: get_session(timeout) (lines 70-89), then enter the retry
\* loop; sess is the Session the call got, named by the slot that holds it
DlSession(t) ==
  /\ dl[t].pc = "start"
  /\ LET choice == choose_best_url(dl[t].result)
         s == ThreadLocal(t)
         d == [dl[t] EXCEPT !.choice = choice, !.base = name_base(dl[t].idx, choice),
                            !.newSess = IF session[s] THEN 0 ELSE 1, !.sess = s]
     IN /\ choice # NoChoice
        /\ ~IsDataUrl(choice.url)
        /\ session' = [session EXCEPT ![s] = TRUE]
        /\ sessCreated' = [sessCreated EXCEPT ![s] = IF session[s] THEN @ ELSE @ + 1]
        /\ IF 0 < d.max_retries + 1
           THEN dl' = [dl EXCEPT ![t] = [d EXCEPT !.pc = "get"]]
           ELSE Return(t, d, NoFile)
  /\ UNCHANGED <<runVars, sel, files, hist>>

\* what the image server may answer to one GET
ServerCTs == {<<"IMAGE/", "PNG">>, <<"text/", "html">>}

\* status 0: no response (session.get raises); a 200 comes with a Content-Type
\* and a body of `total` chunks
Responses ==
  {[status |-> st, ct |-> EmptyStr, total |-> 0] : st \in {0, 404}}
    \cup [status : {200}, ct : ServerCTs, total : {0, MaxChunks}]

\* lines 355-363: one attempt up to the open(); status 0 is session.get raising;
\* R is the set of answers the image server may give
DlGet(t, R) ==
  /\ dl[t].pc = "get"
  /\ \E r \in R :
       LET d == [dl[t] EXCEPT !.gets = @ + 1]
       IN IF r.status # 200
          THEN /\ dl' = [dl EXCEPT ![t] = [d EXCEPT !.pc = "sleep", !.last_err = TRUE]]
               /\ UNCHANGED files
          ELSE LET ext == guess_ext_from_headers(r.ct, d.choice.url)
                   out == FileName(d.base, ext)
                   d2 == [d EXCEPT !.out_file = out, !.exts = @ \cup {ext}]
               IN IF NonEmpty(out)
                  THEN /\ Return(t, d2, out)
                       /\ UNCHANGED files
                  ELSE /\ files' = Opened(out, r.total, d.idx)
                       /\ dl' = [dl EXCEPT ![t] = [d2 EXCEPT !.pc = "stream", !.opens = @ + 1]]
  /\ UNCHANGED <<runVars, sel, session, sessCreated, hist>>

\* lines 364-366: one chunk of resp.iter_content written
DlChunk(t) ==
  /\ dl[t].pc = "stream"
  /\ LET f == dl[t].out_file
     IN /\ files[f].size < files[f].total
        /\ files' = [files EXCEPT ![f].size = @ + 1]
        /\ UNCHANGED dl
  /\ UNCHANGED <<runVars, sel, session, sessCreated, hist>>

\* lines 367-368: the body is exhausted, the file is closed and returned
DlComplete(t) ==
  /\ dl[t].pc = "stream"
  /\ files[dl[t].out_file].size = files[dl[t].out_file].total
  /\ Return(t, dl[t], dl[t].out_file)
  /\ UNCHANGED <<runVars, sel, files, session, sessCreated, hist>>

\* lines 364, 369-371: iter_content raises before the body is complete
DlStreamError(t) ==
  /\ dl[t].pc = "stream"
  /\ files[dl[t].out_file].size < files[dl[t].out_file].total
  /\ dl' = [dl EXCEPT ![t].pc = "sleep", ![t].last_err = TRUE]
  /\ UNCHANGED <<runVars, sel, files, session, sessCreated, hist>>

\* a backoff that sleeps `attempt` seconds instead of 1 + attempt
DlBackoffShort(t) ==
  /\ dl[t].pc = "sleep"
  /\ LET d == [dl[t] EXCEPT !.sleeps = Append(@, dl[t].attempt), !.attempt = @ + 1]
     IN IF d.attempt < d.max_retries + 1
        THEN dl' = [dl EXCEPT ![t] = [d EXCEPT !.pc = "get"]]
        ELSE Return(t, d, NoFile)
  /\ UNCHANGED <<runVars, sel, files, session, sessCreated, hist>>

\* lines 372-376: time.sleep(1 + attempt), then the next attempt or None
DlBackoff(t) ==
  /\ dl[t].pc = "sleep"
  /\ LET d == [dl[t] EXCEPT !.sleeps = Append(@, 1 + dl[t].attempt), !.attempt = @ + 1]
     IN IF d.attempt < d.max_retries + 1
        THEN dl' = [dl EXCEPT ![t] = [d EXCEPT !.pc = "get"]]
        ELSE Return(t, d, NoFile)
  /\ UNCHANGED <<runVars, sel, files, session, sessCreated, hist>>

download_one(t, R) ==
  \/ DlNoUrl(t) \/ DlData(t) \/ DlSession(t) \/ DlGet(t, R)
  \/ DlChunk(t) \/ DlComplete(t) \/ DlStreamError(t) \/ DlBackoff(t)

\* ------------------------------------------------- run is not executing
NoCfg ==
  [engine |-> "none", key |-> FALSE, cx |-> FALSE, query |-> "", limit |-> 0,
   max_concurrent |-> 0, min_width |-> 0, min_height |-> 0]
NoBackend == [name |-> "none", pc |-> "none", failed |-> FALSE]
NoExecutor ==
  [queue |-> <<>>, nthreads |-> 0, idleSem |-> 0, submitted |-> 0, mainIdx |-> 0,
   success_count |-> 0]
NoReport == [kind |-> "none", succeeded |-> 0, total |-> 0]

RunOff ==
  /\ cfg = NoCfg /\ rpc = "off" /\ dirMade = FALSE /\ results = <<>>
  /\ calls = <<>> /\ be = NoBackend /\ raised = <<>> /\ ex = NoExecutor /\ future = <<>>
  /\ report = NoReport

NoSel == [result |-> NoResult, choice |-> NoChoice, done |-> FALSE]

\* ------------------------------------------- specification: choose_best_url
SelUrls == {NoneStr, EmptyStr, U_plain, U_png}
SelResults ==
  {Raw(i, u, th, w, h, iw, ih) :
     i \in SelUrls, u \in SelUrls, th \in {NoneStr, U_thumb},
     w \in {Null, 0, MaxDim}, h \in {Null, MaxDim}, iw \in {Null, 1}, ih \in {0, 1}}

InitSel ==
  /\ sel \in [result : SelResults, choice : {NoChoice}, done : {FALSE}]
  /\ dl = [t \in Workers |-> IdleDl]
  /\ files = <<>>
  /\ session = [t \in Threads |-> FALSE]
  /\ sessCreated = [t \in Threads |-> 0]
  /\ hist = <<>>
  /\ RunOff

Select ==
  /\ ~sel.done
  /\ sel' = [sel EXCEPT !.choice = choose_best_url(sel.result), !.done = TRUE]
  /\ UNCHANGED <<runVars, dl, files, session, sessCreated, hist>>

NextSel == Select
SpecSel == InitSel /\ [][NextSel]_vars

\* C6: choose_best_url returns the URL of a non-empty slot whose width*height
\* product is largest, the earliest such slot in the order image, url,
\* thumbnail, with the record's width and height; it returns nothing exactly
\* when the image, url and thumbnail entries are all empty.
KeyRank(k) == CHOOSE i \in 1..Len(Keys) : Keys[i] = k
SlotArea(result, k) == IntOr(RecW(result), 0) * IntOr(RecH(result), 0)
C6_BestSlot ==
  sel.done =>
    LET r == sel.result
        nonEmpty == {i \in 1..Len(Keys) : StrTruthy(SlotUrl(r, Keys[i]))}
    IN /\ (sel.choice = NoChoice) <=>
            (~StrTruthy(r.image) /\ ~StrTruthy(r.url) /\ ~StrTruthy(r.thumbnail))
       /\ sel.choice # NoChoice =>
            \E i \in nonEmpty :
              /\ sel.choice.url = SlotUrl(r, Keys[i])
              /\ sel.choice.key = Keys[i]
              /\ sel.choice.w = RecW(r) /\ sel.choice.h = RecH(r)
              /\ \A j \in nonEmpty :
                   \/ SlotArea(r, Keys[j]) < SlotArea(r, Keys[i])
                   \/ SlotArea(r, Keys[j]) = SlotArea(r, Keys[i]) /\ i <= j

\* a record with an empty image slot and both a url and a thumbnail was selected from
C6_Witness ==
  /\ sel.done
  /\ ~StrTruthy(sel.result.image)
  /\ StrTruthy(sel.result.url) /\ StrTruthy(sel.result.thumbnail)
  /\ sel.choice.url = sel.result.url
  /\ sel.choice.w = MaxDim

\* --------------------------------- specification: download_one called twice
\* One thread calls download_one on a job and, when it has returned, calls it
\* again on the same job and directory.
DlResults ==
  {Raw(i, NoneStr, NoneStr, 1, MaxDim, Null, Null) : i \in HttpUrls \cup DataUrls}
    \cup {Raw(NoneStr, EmptyStr, th, Null, Null, Null, MaxDim) : th \in {NoneStr, U_thumb}}

\* a file left in out_dir by an earlier run: empty, or with bytes
PreContents == {[size |-> n, total |-> 1, by |-> -1] : n \in 0..1}
PreExts == {".png"}

InitDl ==
  /\ sel = NoSel
  /\ \E result \in DlResults, mr \in 0..MaxRetriesBound :
       /\ dl = [t \in Workers |-> IF t = 1 THEN CallDl(0, result, mr) ELSE IdleDl]
       /\ \/ files = <<>>
          \/ \E e \in PreExts, c \in PreContents :
               /\ choose_best_url(result) # NoChoice
               /\ files = (FileName(name_base(0, choose_best_url(result)), e) :> c)
  /\ session = [t \in Threads |-> FALSE]
  /\ sessCreated = [t \in Threads |-> 0]
  /\ hist = <<>>
  /\ RunOff

\* the caller invokes download_one once more with the same arguments
DlRepeat ==
  /\ dl[1].pc = "done"
  /\ hist = <<>>
  /\ hist' = <<[ret |-> dl[1].ret, exts |-> dl[1].exts, files |-> files]>>
  /\ dl' = [dl EXCEPT ![1] = CallDl(dl[1].idx, dl[1].result, dl[1].max_retries)]
  /\ UNCHANGED <<runVars, sel, files, session, sessCreated>>

NextDl == download_one(1, Responses) \/ DlRepeat
SpecDl == InitDl /\ [][NextDl]_vars

\* the job of the calling thread, once its URL is selected
JobChoice == choose_best_url(dl[1].result)
JobIsHttp == JobChoice.url \in HttpUrls \cup {U_thumb}
JobIsData == JobChoice.url \in DataUrls
JobFiles == {f \in DOMAIN files : f.base = name_base(dl[1].idx, JobChoice)}
NoEarlierFiles == \A f \in DOMAIN files : files[f].by # -1

RECURSIVE SumSeq(_)
SumSeq(q) == IF q = <<>> THEN 0 ELSE Head(q) + SumSeq(Tail(q))

\* C1: once download_one has returned, every file it wrote under the job's
\* final name holds the complete payload (never zero or partial bytes of it),
\* and a returned path names a completely written file.
C1_NoPartialFile ==
  dl[1].pc = "done" =>
    /\ \A f \in DOMAIN files :
         files[f].by = dl[1].idx => files[f].size = files[f].total
    /\ dl[1].ret # NoFile =>
         Exists(dl[1].ret) /\ files[dl[1].ret].size = files[dl[1].ret].total

\* C2: a download_one call on a non-data URL whose every attempt fails makes
\* exactly max_retries + 1 GETs, returns nothing, and has slept 1, 2, ...,
\* max_retries + 1 seconds, sum(1..max_retries+1) in total; no call ever makes
\* more than max_retries + 1 GETs.
C2_RetryBound ==
  /\ dl[1].gets <= dl[1].max_retries + 1
  /\ (dl[1].pc = "done" /\ JobIsHttp /\ dl[1].ret = NoFile) =>
       LET n == dl[1].max_retries + 1
       IN /\ dl[1].gets = n
          /\ Len(dl[1].sleeps) = n
          /\ \A k \in 1..n : dl[1].sleeps[k] = k
          /\ 2 * SumSeq(dl[1].sleeps) = n * (n + 1)

\* every attempt of a call with the largest retry count failed, one of them
\* after the file had been opened
C2_Witness ==
  /\ dl[1].pc = "done" /\ JobIsHttp /\ dl[1].ret = NoFile
  /\ dl[1].max_retries = MaxRetriesBound
  /\ dl[1].opens > 0
  /\ SumSeq(dl[1].sleeps) > 1

\* C5 as stated: the second download of a job, after a first that succeeded
\* into an empty directory, leaves exactly one file of the job, does not open
\* a file to stream a response body into, and names the same file as the
\* first, whatever the server answers.
C5_Original ==
  (hist # <<>> /\ dl[1].pc = "done" /\ hist[1].ret # NoFile /\ NoEarlierFiles) =>
    /\ Cardinality(JobFiles) = 1
    /\ JobIsHttp => dl[1].opens = 0
    /\ dl[1].ret # NoFile => dl[1].ret = hist[1].ret

\* C5 amended: when every 200 response to the job gives the same extension
\* and the first download stored a non-empty file, the second download changes
\* nothing in the directory, which holds exactly one file of the job, and it
\* opens no file; the names of both downloads have the stem given by
\* (index, width, height, url) and differ at most in the extension.
C5_SameExtension ==
  (hist # <<>> /\ dl[1].pc = "done" /\ hist[1].ret # NoFile /\ NoEarlierFiles) =>
    /\ hist[1].ret.base = name_base(dl[1].idx, JobChoice)
    /\ dl[1].ret # NoFile => dl[1].ret.base = hist[1].ret.base
    /\ (/\ Cardinality(hist[1].exts \cup dl[1].exts) <= 1
        /\ hist[1].files[hist[1].ret].size > 0) =>
         /\ files = hist[1].files
         /\ Cardinality(JobFiles) = 1
         /\ dl[1].opens = 0
         /\ dl[1].ret \in {NoFile, hist[1].ret}

\* the second download got a 200 and returned the file the first one stored
C5_Witness ==
  /\ hist # <<>> /\ dl[1].pc = "done" /\ NoEarlierFiles
  /\ JobIsHttp /\ hist[1].ret # NoFile
  /\ dl[1].ret = hist[1].ret
  /\ Cardinality(hist[1].exts \cup dl[1].exts) = 1
  /\ files[dl[1].ret].size = MaxChunks

\* C10: for a job whose selected URL is a data: URI, download_one makes no GET,
\* creates no Session, never sleeps and writes at most once; it returns the
\* path of the decoded file, or nothing when decoding fails; and a file that
\* was there with bytes in it is never changed.
C10_DataUrl ==
  /\ [](JobIsData =>
          /\ dl[1].gets = 0 /\ dl[1].sleeps = <<>> /\ dl[1].attempt = 0
          /\ dl[1].newSess = 0 /\ ~session[1] /\ sessCreated[1] = 0
          /\ dl[1].opens <= 1
          /\ dl[1].pc = "done" =>
               /\ DataDecodeFails(JobChoice.url) => dl[1].ret = NoFile
               /\ dl[1].ret # NoFile =>
                    /\ dl[1].ret = FileName(name_base(dl[1].idx, JobChoice),
                                            DataExt(DataMime(DataHeader(JobChoice.url))))
                    /\ Exists(dl[1].ret))
  /\ [][JobIsData =>
          \A f \in DOMAIN files : files[f].size > 0 => files'[f] = files[f]]_vars

\* a data: job returned the path of a file that an earlier run had left
C10_Witness ==
  /\ JobIsData /\ dl[1].pc = "done" /\ dl[1].ret # NoFile
  /\ files[dl[1].ret].by = -1
  /\ dl[1].ret.ext = ".png"

\* ------------------------------------------------------- discovery backends
Min(a, b) == IF a <= b THEN a ELSE b
Max(a, b) == IF a >= b THEN a ELSE b

\* the listing of the free search service for the query
ItemPool ==
  <<Raw(D_badpad, NoneStr, NoneStr, Null, Null, 1, MaxDim),
    Raw(NoneStr, EmptyStr, NoneStr, 1, 1, Null, Null),
    Raw(U_plain, NoneStr, NoneStr, MaxDim, MaxDim, Null, Null),
    Raw(U_png, NoneStr, U_thumb, 0, Null, Null, Null)>>

\* up to n items of a listing, from position start (1-based)
ServiceItems(pool, n, start) == SubSeq(pool, start, Min(start + n - 1, Len(pool)))

\* -- fetch_results_ddg (lines 113-142)
DdgFirstWait == 2
DdgWaitCap == 30
DdgMaxRetries == 3

DdgFrame ==
  [name |-> "ddg", pc |-> "call", attempt |-> 0, wait_seconds |-> DdgFirstWait,
   sleeps |-> <<>>, svc |-> 0, offered |-> 0, out |-> <<>>]

\* a filter that lets every item pass
DdgAcceptsAll(r, min_width, min_height) == TRUE

\* lines 130-132
DdgAccepts(r, min_width, min_height) ==
  /\ IntOr(IntOr(r.width, r.image_width), 0) >= min_width
  /\ IntOr(IntOr(r.height, r.image_height), 0) >= min_height

\* a collection loop without the break of lines 134-135
RECURSIVE DdgCollectNoBreak(_, _, _, _, _)
DdgCollectNoBreak(items, acc, limit, min_width, min_height) ==
  IF items = <<>> THEN acc
  ELSE IF DdgAccepts(Head(items), min_width, min_height)
       THEN DdgCollectNoBreak(Tail(items), Append(acc, Head(items)), limit, min_width, min_height)
       ELSE DdgCollectNoBreak(Tail(items), acc, limit, min_width, min_height)

\* the loop of lines 119-136 over the items the service yields
RECURSIVE DdgCollect(_, _, _, _, _)
DdgCollect(items, acc, limit, min_width, min_height) ==
  IF items = <<>> THEN acc
  ELSE IF DdgAccepts(Head(items), min_width, min_height)
       THEN IF Len(acc) + 1 >= limit
            THEN Append(acc, Head(items))
            ELSE DdgCollect(Tail(items), Append(acc, Head(items)), limit, min_width, min_height)
       ELSE DdgCollect(Tail(items), acc, limit, min_width, min_height)

\* lines 118-136: the service answers with up to max(10, limit * 2) items;
\* results is a new list in every pass of the while loop (line 119)
DdgYield ==
  /\ be.name = "ddg" /\ be.pc = "call"
  /\ \E n \in 0..Min(MaxItems, Max(10, cfg.limit * 2)) :
       be' = [be EXCEPT !.pc = "returned", !.svc = @ + 1, !.offered = n,
                        !.out = DdgCollect(ServiceItems(ItemPool, n, 1), <<>>,
                                           cfg.limit, cfg.min_width, cfg.min_height)]
  /\ UNCHANGED <<rest, raised, dlVars>>

\* a handler that sleeps the same time before every retry
DdgRateLimitedFlat ==
  /\ be.name = "ddg" /\ be.pc = "call"
  /\ \E n \in 0..Min(MaxItems, Max(10, cfg.limit * 2)) :
       LET got == DdgCollect(ServiceItems(ItemPool, n, 1), <<>>,
                             cfg.limit, cfg.min_width, cfg.min_height)
           b == [be EXCEPT !.svc = @ + 1, !.attempt = @ + 1, !.out = got]
       IN /\ Len(got) < cfg.limit
          /\ IF b.attempt > DdgMaxRetries
             THEN /\ be' = [b EXCEPT !.pc = "raised"]
                  /\ raised' = Append(raised, [backend |-> "ddg", exc |-> "ratelimit"])
             ELSE /\ be' = [b EXCEPT !.sleeps = Append(@, b.wait_seconds)]
                  /\ UNCHANGED raised
  /\ UNCHANGED <<rest, dlVars>>

\* lines 137-142: RatelimitException, raised by the service after it yielded
\* n items of which fewer than limit were kept (else line 135 had left the loop)
DdgRateLimited ==
  /\ be.name = "ddg" /\ be.pc = "call"
  /\ \E n \in 0..Min(MaxItems, Max(10, cfg.limit * 2)) :
       LET got == DdgCollect(ServiceItems(ItemPool, n, 1), <<>>,
                             cfg.limit, cfg.min_width, cfg.min_height)
           b == [be EXCEPT !.svc = @ + 1, !.attempt = @ + 1, !.out = got]
       IN /\ Len(got) < cfg.limit
          /\ IF b.attempt > DdgMaxRetries
             THEN /\ be' = [b EXCEPT !.pc = "raised"]
                  /\ raised' = Append(raised, [backend |-> "ddg", exc |-> "ratelimit"])
             ELSE /\ be' = [b EXCEPT !.sleeps = Append(@, b.wait_seconds),
                                     !.wait_seconds = Min(b.wait_seconds * 2, DdgWaitCap)]
                  /\ UNCHANGED raised
  /\ UNCHANGED <<rest, dlVars>>

\* any other exception of DDGS().images propagates (no handler in 117-142)
DdgError ==
  /\ be.name = "ddg" /\ be.pc = "call"
  /\ be' = [be EXCEPT !.pc = "raised", !.svc = @ + 1]
  /\ raised' = Append(raised, [backend |-> "ddg", exc |-> "other"])
  /\ UNCHANGED <<rest, dlVars>>

fetch_results_ddg == DdgYield \/ DdgRateLimited \/ DdgError

\* -- fetch_results_google_cse (lines 145-180)
CsePageSize == 10
CseMaxStart == 91

\* reqs, prev, last, full and afterShort record the requests made: their
\* number, the start offset of the latest, how it was answered, whether every
\* page so far held as many items as were asked for, and whether a request
\* followed a page that held fewer
CseFrame ==
  [name |-> "google", pc |-> "loop", start_index |-> 1, num |-> 0,
   offered |-> 0, out |-> <<>>, reqs |-> 0, prev |-> 0, last |-> "none",
   full |-> TRUE, afterShort |-> FALSE]

\* the listing of the API for the query: link, image.width, image.height
\* (Null when absent)
CsePool ==
  <<[link |-> U_plain, width |-> MaxDim, height |-> MaxDim],
    [link |-> D_png, width |-> Null, height |-> 1],
    [link |-> NoneStr, width |-> MaxDim, height |-> MaxDim],
    [link |-> U_plain, width |-> MaxDim, height |-> MaxDim]>>

\* lines 173-174: int(x) if x else 0
CseDim(x) == IF IntTruthy(x) THEN x ELSE 0

\* line 175
CseAccepts(it, min_width, min_height) ==
  CseDim(it.width) >= min_width /\ CseDim(it.height) >= min_height /\ StrTruthy(it.link)

\* lines 170-178
RECURSIVE CseCollect(_, _, _, _, _)
CseCollect(items, acc, limit, min_width, min_height) ==
  IF items = <<>> THEN acc
  ELSE LET it == Head(items)
           r == Raw(it.link, NoneStr, NoneStr, CseDim(it.width), CseDim(it.height), Null, Null)
       IN IF CseAccepts(it, min_width, min_height)
          THEN IF Len(acc) + 1 >= limit
               THEN Append(acc, r)
               ELSE CseCollect(Tail(items), Append(acc, r), limit, min_width, min_height)
          ELSE CseCollect(Tail(items), acc, limit, min_width, min_height)

\* the listing of the API: four items for "cats", a hundred acceptable ones
\* for "dogs", a hundred of which every fourth is acceptable for "birds"
CseListed(q) == IF q = "cats" THEN Len(CsePool) ELSE CseMaxStart + CsePageSize - 1
CseListing(q, p) ==
  IF q = "cats" THEN CsePool[p]
  ELSE IF q = "dogs" \/ p % 4 = 0 THEN CsePool[1]
  ELSE CsePool[3]

\* the items of one answer: up to n of the listing, from position start
ServicePage(q, start, n) ==
  [i \in 1..Min(n, Max(0, CseListed(q) - start + 1)) |-> CseListing(q, start + i - 1)]

\* the sizes of the answers tried: none, one, as many as asked for
CseAnswers(num) == {0, 1, num}

CseLooping ==
  /\ be.name = "google" /\ be.pc = "loop"
  /\ Len(be.out) < cfg.limit /\ be.start_index <= CseMaxStart

\* a request that always asks for a whole page
CseRequestTen(b) ==
  [b EXCEPT !.num = CsePageSize,
            !.reqs = @ + 1, !.prev = b.start_index,
            !.afterShort = @ \/ (b.last = "items" /\ b.offered < b.num)]

\* lines 150-163: the request for one page
CseRequest(b) ==
  [b EXCEPT !.num = Min(CsePageSize, cfg.limit - Len(b.out)),
            !.reqs = @ + 1, !.prev = b.start_index,
            !.afterShort = @ \/ (b.last = "items" /\ b.offered < b.num)]

\* a loop that advances the offset by the number of items asked for
CsePageByNum ==
  /\ CseLooping
  /\ \E n \in CseAnswers(CseRequest(be).num) :
       LET items == ServicePage(cfg.query, be.start_index, n)
           b == [CseRequest(be) EXCEPT !.offered = Len(items),
                                       !.full = @ /\ Len(items) = CseRequest(be).num]
       IN IF items = <<>>
          THEN be' = [b EXCEPT !.pc = "returned", !.last = "empty"]
          ELSE be' = [b EXCEPT !.out = CseCollect(items, be.out, cfg.limit,
                                                  cfg.min_width, cfg.min_height),
                               !.start_index = @ + b.num, !.last = "items"]
  /\ UNCHANGED <<rest, raised, dlVars>>

\* lines 149-179: one page with status 200; an empty page ends the loop
CsePage ==
  /\ CseLooping
  /\ \E n \in CseAnswers(CseRequest(be).num) :
       LET items == ServicePage(cfg.query, be.start_index, n)
           b == [CseRequest(be) EXCEPT !.offered = Len(items),
                                       !.full = @ /\ Len(items) = CseRequest(be).num]
       IN IF items = <<>>
          THEN be' = [b EXCEPT !.pc = "returned", !.last = "empty"]
          ELSE be' = [b EXCEPT !.out = CseCollect(items, be.out, cfg.limit,
                                                  cfg.min_width, cfg.min_height),
                               !.start_index = @ + Len(items), !.last = "items"]
  /\ UNCHANGED <<rest, raised, dlVars>>

\* lines 164-165: a status other than 200 ends the loop
CseBadStatus ==
  /\ CseLooping
  /\ be' = [CseRequest(be) EXCEPT !.pc = "returned", !.last = "status", !.full = FALSE]
  /\ UNCHANGED <<rest, raised, dlVars>>

\* session.get, resp.json() or int() raises: no handler in 145-180
CseError ==
  /\ CseLooping
  /\ be' = [CseRequest(be) EXCEPT !.pc = "raised", !.last = "error", !.full = FALSE]
  /\ raised' = Append(raised, [backend |-> "google", exc |-> "other"])
  /\ UNCHANGED <<rest, dlVars>>

\* line 149 false, line 180
CseExit ==
  /\ be.name = "google" /\ be.pc = "loop"
  /\ ~(Len(be.out) < cfg.limit /\ be.start_index <= CseMaxStart)
  /\ be' = [be EXCEPT !.pc = "returned"]
  /\ UNCHANGED <<rest, raised, dlVars>>

fetch_results_google_cse == CsePage \/ CseBadStatus \/ CseError \/ CseExit

\* -- fetch_results_browser_google (lines 183-298)
BrMaxEmptyScrolls == 6

\* page is the number of thumbnails the page shows; dry and clicks record the
\* scrolls made in a row, since thumbnails were first seen, that brought no
\* new thumbnail, and the thumbnails clicked; elapsed is time.monotonic() -
\* start_time, counted in sleeps, of which MaxTicks fit into max_time_seconds
BrowserFrame ==
  [name |-> "browser", pc |-> "acquire", driver |-> "none", quits |-> 0, page |-> 0,
   index |-> 0, last_count |-> 0, empty_scrolls |-> 0, exit |-> "none",
   out |-> <<>>, dry |-> 0, clicks |-> 0, elapsed |-> 0]

\* the large image a click may reveal: an http src, its natural size unknown
BrImages == {Raw(U_png, NoneStr, NoneStr, 0, 0, Null, Null)}

\* lines 296-298 after the loop was left: driver.quit(), return results[:limit]
BrLeave(b, how) ==
  be' = [b EXCEPT !.pc = "returned", !.driver = "quit", !.quits = @ + 1, !.exit = how,
                  !.out = SubSeq(b.out, 1, Min(Len(b.out), cfg.limit))]

\* an exception that leaves the function without the finally of line 296
BrFailNoQuit(b) ==
  /\ be' = [b EXCEPT !.pc = "raised", !.exit = "raise"]
  /\ raised' = Append(raised, [backend |-> "browser", exc |-> "other"])

\* lines 296-297 on an exception inside the try of line 213
BrFail(b) ==
  /\ be' = [b EXCEPT !.pc = "raised", !.driver = "quit", !.quits = @ + 1, !.exit = "raise"]
  /\ raised' = Append(raised, [backend |-> "browser", exc |-> "other"])

\* lines 250-254
BrCounted(b) ==
  IF b.page = b.last_count
  THEN [b EXCEPT !.empty_scrolls = @ + 1]
  ELSE [b EXCEPT !.empty_scrolls = 0, !.last_count = b.page]

\* the clock after a sleep: it has advanced by the sleep, or by more when the
\* browser calls around it were slow
Slept(b) == {Min(b.elapsed + 1, MaxTicks + 1), MaxTicks + 1}

\* lines 196-212: the driver starts, at the first or at the second try
BrAcquire ==
  /\ be.name = "browser" /\ be.pc = "acquire"
  /\ be' = [be EXCEPT !.pc = "goto", !.driver = "open"]
  /\ UNCHANGED <<rest, raised, dlVars>>

\* line 211 raises: no driver was acquired
BrAcquireFails ==
  /\ be.name = "browser" /\ be.pc = "acquire"
  /\ be' = [be EXCEPT !.pc = "raised", !.exit = "raise"]
  /\ raised' = Append(raised, [backend |-> "browser", exc |-> "other"])
  /\ UNCHANGED <<rest, dlVars>>

\* lines 214-237: load the page, try the consent buttons
BrGoto ==
  /\ be.name = "browser" /\ be.pc = "goto"
  /\ \E n \in 0..MaxThumbs, e \in Slept(be) :
       be' = [be EXCEPT !.pc = "scan", !.page = n, !.elapsed = e]
  /\ UNCHANGED <<rest, raised, dlVars>>

\* an exception of driver.get, find_elements, execute_script or get_attribute
BrError ==
  /\ be.name = "browser" /\ be.pc \in {"goto", "scan"}
  /\ BrFail(be)
  /\ UNCHANGED <<rest, dlVars>>

\* line 238 false
BrFull ==
  /\ be.name = "browser" /\ be.pc = "scan"
  /\ Len(be.out) >= cfg.limit
  /\ BrLeave(be, "limit")
  /\ UNCHANGED <<rest, raised, dlVars>>

\* lines 240-242: the time budget is used up
BrTimeout ==
  /\ be.name = "browser" /\ be.pc = "scan"
  /\ Len(be.out) < cfg.limit
  /\ be.elapsed > MaxTicks
  /\ BrLeave(be, "timeout")
  /\ UNCHANGED <<rest, raised, dlVars>>

\* line 238 true and line 240 false: one more pass of the loop
BrScanning ==
  /\ be.name = "browser" /\ be.pc = "scan"
  /\ Len(be.out) < cfg.limit
  /\ be.elapsed <= MaxTicks

\* lines 245-249 and 258-262: scroll, after which more thumbnails may be there
BrScroll ==
  /\ BrScanning
  /\ \E n \in be.page..MaxThumbs, e \in Slept(be) :
       IF be.page = 0
       THEN be' = [be EXCEPT !.page = n, !.elapsed = e]
       ELSE LET b == BrCounted(be)
            IN /\ ~(b.empty_scrolls >= BrMaxEmptyScrolls /\ b.index >= b.page)
               /\ b.index >= b.page
               /\ be' = [b EXCEPT !.page = n, !.elapsed = e,
                                  !.dry = IF n > b.page THEN 0 ELSE @ + 1]
  /\ UNCHANGED <<rest, raised, dlVars>>

\* lines 255-257
BrEndOfPage ==
  /\ BrScanning
  /\ be.page > 0
  /\ LET b == BrCounted(be)
     IN /\ b.empty_scrolls >= BrMaxEmptyScrolls /\ b.index >= b.page
        /\ BrLeave(b, "end")
  /\ UNCHANGED <<rest, raised, dlVars>>

\* a click that appends the image it reveals twice
BrClickTwice ==
  /\ BrScanning
  /\ be.page > 0
  /\ LET b == BrCounted(be)
     IN /\ b.index < b.page
        /\ \/ be' = [b EXCEPT !.index = @ + 1, !.clicks = @ + 1]
           \/ \E img \in BrImages, e \in Slept(be) :
                be' = [b EXCEPT !.index = @ + 1, !.clicks = @ + 1, !.elapsed = e,
                                !.out = Append(Append(@, img), img)]
  /\ UNCHANGED <<rest, raised, dlVars>>

\* lines 263-295: click thumbs[index]; the click fails (no sleep), or after
\* the sleep no large image with an http src is there, or the first one is
\* appended
BrClick ==
  /\ BrScanning
  /\ be.page > 0
  /\ LET b == BrCounted(be)
     IN /\ b.index < b.page
        /\ \/ be' = [b EXCEPT !.index = @ + 1, !.clicks = @ + 1]
           \/ \E e \in Slept(be) :
                be' = [b EXCEPT !.index = @ + 1, !.clicks = @ + 1, !.elapsed = e]
           \/ \E img \in BrImages, e \in Slept(be) :
                be' = [b EXCEPT !.index = @ + 1, !.clicks = @ + 1, !.elapsed = e,
                                !.out = Append(@, img)]
  /\ UNCHANGED <<rest, raised, dlVars>>

fetch_results_browser_google ==
  \/ BrAcquire \/ BrAcquireFails \/ BrGoto \/ BrError \/ BrFull
  \/ BrTimeout \/ BrScroll \/ BrEndOfPage \/ BrClick

\* ---------------------------------------------------------------------- run
DefaultMaxRetries == 2

Call(backend) ==
  [backend |-> backend, query |-> cfg.query, limit |-> cfg.limit,
   min_width |-> cfg.min_width, min_height |-> cfg.min_height]

Ended(kind) == rpc' = "exit" /\ report' = [NoReport EXCEPT !.kind = kind]

\* lines 380-388: google without both credentials raises SystemExit, which no
\* handler of run catches
RunConfigError ==
  /\ rpc = "start"
  /\ cfg.engine = "google" /\ (~cfg.key \/ ~cfg.cx)
  /\ dirMade' = TRUE
  /\ Ended("config_error")
  /\ UNCHANGED <<cfg, results, calls, be, raised, ex, future, dlVars>>

\* lines 380-393: the selected backend is called; fetch_results_google_cse
\* begins with get_session(timeout=20) on the main thread (line 148)
RunDiscover ==
  /\ rpc = "start"
  /\ ~(cfg.engine = "google" /\ (~cfg.key \/ ~cfg.cx))
  /\ dirMade' = TRUE
  /\ rpc' = "discover"
  /\ IF cfg.engine = "google"
     THEN /\ be' = CseFrame
          /\ calls' = Append(calls, Call("google"))
          /\ session' = [session EXCEPT ![0] = TRUE]
          /\ sessCreated' = [sessCreated EXCEPT ![0] = IF session[0] THEN @ ELSE @ + 1]
     ELSE IF cfg.engine = "browser"
     THEN /\ be' = BrowserFrame
          /\ calls' = Append(calls, Call("browser"))
          /\ UNCHANGED <<session, sessCreated>>
     ELSE /\ be' = DdgFrame
          /\ calls' = Append(calls, Call("ddg"))
          /\ UNCHANGED <<session, sessCreated>>
  /\ UNCHANGED <<cfg, results, raised, ex, future, report, sel, dl, files, hist>>

\* a handler that falls back to the browser on every exception
RunFallbackAny ==
  /\ rpc = "discover" /\ be.pc = "raised"
  /\ rpc' = "fallback"
  /\ be' = BrowserFrame
  /\ calls' = Append(calls, Call("browser"))
  /\ UNCHANGED <<cfg, dirMade, results, raised, ex, future, report, dlVars>>

\* lines 394-397: except RatelimitException
RunFallback ==
  /\ rpc = "discover" /\ be.pc = "raised"
  /\ raised[Len(raised)].exc = "ratelimit"
  /\ rpc' = "fallback"
  /\ be' = BrowserFrame
  /\ calls' = Append(calls, Call("browser"))
  /\ UNCHANGED <<cfg, dirMade, results, raised, ex, future, report, dlVars>>

\* lines 398-400: the fallback call raised
RunBrowserFailed ==
  /\ rpc = "fallback" /\ be.pc = "raised"
  /\ be' = NoBackend
  /\ Ended("browser_failed")
  /\ UNCHANGED <<cfg, dirMade, results, calls, raised, ex, future, dlVars>>

\* lines 401-403: except Exception
RunSearchFailed ==
  /\ rpc = "discover" /\ be.pc = "raised"
  /\ raised[Len(raised)].exc # "ratelimit"
  /\ be' = NoBackend
  /\ Ended("search_failed")
  /\ UNCHANGED <<cfg, dirMade, results, calls, raised, ex, future, dlVars>>

\* the backend has returned; failed keeps whether its last service call was
\* answered with an error status that the backend did not raise (lines 164-165)
Finished(b) == [NoBackend EXCEPT !.failed = b.name = "google" /\ b.last = "status"]

\* lines 405-407
RunNoResults ==
  /\ rpc \in {"discover", "fallback"} /\ be.pc = "returned"
  /\ be.out = <<>>
  /\ results' = be.out
  /\ be' = Finished(be)
  /\ Ended("no_results")
  /\ UNCHANGED <<cfg, dirMade, calls, raised, ex, future, dlVars>>

\* lines 409-413: the pool is created, jobs = list(enumerate(results))
RunStartDownloads ==
  /\ rpc \in {"discover", "fallback"} /\ be.pc = "returned"
  /\ be.out # <<>>
  /\ results' = be.out
  /\ be' = Finished(be)
  /\ rpc' = "submit"
  /\ UNCHANGED <<cfg, dirMade, calls, raised, ex, future, report, dlVars>>

\* -------------------------- ThreadPoolExecutor(max_workers=max_concurrent)
NewFuture == [state |-> "pending", ret |-> NoFile, runs |-> 0]

\* a pool that starts threads up to a fixed size, whatever max_workers is
PoolSpawnsFixed(e) ==
  IF e.idleSem > 0 THEN [e EXCEPT !.idleSem = @ - 1]
  ELSE IF e.nthreads < MaxWorkers THEN [e EXCEPT !.nthreads = @ + 1]
  ELSE e

\* submit's thread adjustment: an idle worker is claimed, or a thread is
\* started while fewer than max_workers exist
PoolSpawns(e) ==
  IF e.idleSem > 0 THEN [e EXCEPT !.idleSem = @ - 1]
  ELSE IF e.nthreads < cfg.max_concurrent THEN [e EXCEPT !.nthreads = @ + 1]
  ELSE e

\* line 414: ex.map submits every job, in order, before any result is read
RunSubmit ==
  /\ rpc = "submit"
  /\ ex.submitted < Len(results)
  /\ LET e == [ex EXCEPT !.queue = Append(@, ex.submitted), !.submitted = @ + 1]
     IN ex' = PoolSpawns(e)
  /\ future' = Append(future, NewFuture)
  /\ rpc' = IF ex.submitted + 1 = Len(results) THEN "collect" ELSE "submit"
  /\ UNCHANGED <<cfg, dirMade, results, calls, be, raised, report, dlVars>>

\* a pool thread takes the next work item: download_one(job, out_dir, timeout, verbose)
WorkerTake(t) ==
  /\ t <= ex.nthreads
  /\ dl[t].pc = "idle"
  /\ ex.queue # <<>>
  /\ LET idx == Head(ex.queue)
     IN /\ dl' = [dl EXCEPT ![t] = CallDl(idx, results[idx + 1], DefaultMaxRetries)]
        /\ future' = [future EXCEPT ![idx + 1].state = "running", ![idx + 1].runs = @ + 1]
  /\ ex' = [ex EXCEPT !.queue = Tail(@)]
  /\ UNCHANGED <<cfg, rpc, dirMade, results, calls, be, raised, report>>
  /\ UNCHANGED <<sel, files, session, sessCreated, hist>>

\* download_one returned: the future gets its value, the thread is idle again
WorkerDone(t) ==
  /\ t <= ex.nthreads
  /\ dl[t].pc = "done"
  /\ future' = [future EXCEPT ![dl[t].idx + 1].state = "done", ![dl[t].idx + 1].ret = dl[t].ret]
  /\ dl' = [dl EXCEPT ![t] = IdleDl]
  /\ ex' = [ex EXCEPT !.idleSem = @ + 1]
  /\ UNCHANGED <<cfg, rpc, dirMade, results, calls, be, raised, report>>
  /\ UNCHANGED <<sel, files, session, sessCreated, hist>>

\* a loop that counts every finished job as saved
RunCollectAll ==
  /\ rpc = "collect"
  /\ ex.mainIdx < Len(results)
  /\ future[ex.mainIdx + 1].state = "done"
  /\ ex' = [ex EXCEPT !.mainIdx = @ + 1, !.success_count = @ + 1]
  /\ UNCHANGED <<cfg, rpc, dirMade, results, calls, be, raised, future, report, dlVars>>

\* lines 414-417: the next result of ex.map, in job order
RunCollect ==
  /\ rpc = "collect"
  /\ ex.mainIdx < Len(results)
  /\ future[ex.mainIdx + 1].state = "done"
  /\ ex' = [ex EXCEPT !.mainIdx = @ + 1,
                      !.success_count = IF future[ex.mainIdx + 1].ret # NoFile THEN @ + 1 ELSE @]
  /\ UNCHANGED <<cfg, rpc, dirMade, results, calls, be, raised, future, report, dlVars>>

\* lines 418-420: the with block is left (shutdown waits for the workers)
RunReport ==
  /\ rpc = "collect"
  /\ ex.mainIdx = Len(results)
  /\ \A t \in Workers : dl[t].pc = "idle"
  /\ rpc' = "exit"
  /\ report' = [kind |-> "saved", succeeded |-> ex.success_count, total |-> Len(results)]
  /\ UNCHANGED <<cfg, dirMade, results, calls, be, raised, ex, future, dlVars>>

\* one good body of one chunk, or no usable answer
RunResponses ==
  {[status |-> st, ct |-> EmptyStr, total |-> 0] : st \in {0}}
    \cup {[status |-> 200, ct |-> <<"IMAGE/", "PNG">>, total |-> 1]}

run ==
  \/ RunConfigError \/ RunDiscover \/ RunFallback \/ RunBrowserFailed \/ RunSearchFailed
  \/ RunNoResults \/ RunStartDownloads \/ RunSubmit \/ RunCollect \/ RunReport

\* ------------------------------------------------------- specification: run
Engines == {"ddg", "google", "browser"}
MinDims == {<<0, 0>>, <<1, MaxDim>>}

InitRun ==
  /\ sel = NoSel
  /\ dl = [t \in Workers |-> IdleDl]
  /\ files = <<>>
  /\ session = [t \in Threads |-> FALSE]
  /\ sessCreated = [t \in Threads |-> 0]
  /\ hist = <<>>
  /\ \E e \in Engines, k \in BOOLEAN, c \in BOOLEAN, l \in 1..MaxLimit,
        m \in 1..MaxWorkers, md \in MinDims :
       /\ (e # "google") => (k /\ c)
       /\ cfg = [engine |-> e, key |-> k, cx |-> c, query |-> "cats", limit |-> l,
                 max_concurrent |-> m, min_width |-> md[1], min_height |-> md[2]]
  /\ rpc = "start" /\ dirMade = FALSE /\ results = <<>>
  /\ calls = <<>> /\ be = NoBackend /\ raised = <<>> /\ ex = NoExecutor /\ future = <<>>
  /\ report = NoReport

NextRun ==
  \/ run
  \/ fetch_results_ddg \/ fetch_results_google_cse \/ fetch_results_browser_google
  \/ \E t \in Workers : WorkerTake(t) \/ WorkerDone(t) \/ download_one(t, RunResponses)

SpecRun == InitRun /\ [][NextRun]_vars

Running == {t \in Workers : dl[t].pc # "idle"}
InFlight == {t \in Workers : dl[t].pc \in {"get", "stream"}}

NoDownloads ==
  /\ ex = NoExecutor /\ future = <<>> /\ files = <<>>
  /\ \A t \in Workers : dl[t] = IdleDl

\* C3: in the download stage of run, the number of download_one calls that
\* execute at the same time, and of GET requests in flight, never exceeds
\* max_concurrent.
C3_ConcurrencyBound ==
  /\ Cardinality(Running) <= cfg.max_concurrent
  /\ Cardinality(InFlight) <= cfg.max_concurrent
  /\ ex.nthreads <= cfg.max_concurrent

\* the pool is saturated while a job still waits in the queue
C3_Witness ==
  /\ rpc = "collect"
  /\ ex.queue # <<>>
  /\ Cardinality(InFlight) = cfg.max_concurrent
  /\ cfg.max_concurrent < Len(results)

RateLimit == [backend |-> "ddg", exc |-> "ratelimit"]
Handled1 == raised # <<>> /\ ~(rpc = "discover" /\ be.pc = "raised")
Handled2 == Len(raised) = 2 /\ ~(rpc = "fallback" /\ be.pc = "raised")

\* C4: a rate-limit failure of the ddg backend makes run call the browser
\* backend exactly once, with the same query, limit, min_width and min_height;
\* any other discovery failure, and any failure of the google or browser
\* backend, causes no second call and ends the run without a download; a
\* failure of the fallback call ends the run without a download and without a
\* third call.
C4_Fallback ==
  /\ Len(calls) <= 2 /\ Len(raised) <= 2
  /\ \A i \in 1..Len(raised) : raised[i].exc = "ratelimit" => raised[i].backend = "ddg"
  /\ Len(calls) = 2 =>
       /\ cfg.engine = "ddg"
       /\ raised # <<>> /\ raised[1] = RateLimit
       /\ calls[1] = [backend |-> "ddg", query |-> cfg.query, limit |-> cfg.limit,
                      min_width |-> cfg.min_width, min_height |-> cfg.min_height]
       /\ calls[2] = [calls[1] EXCEPT !.backend = "browser"]
  /\ (Handled1 /\ raised[1] = RateLimit) => Len(calls) = 2
  /\ (Handled1 /\ raised[1] # RateLimit) =>
       /\ Len(calls) = 1 /\ Len(raised) = 1
       /\ rpc = "exit" /\ report.kind = "search_failed"
       /\ NoDownloads
  /\ Handled2 =>
       /\ rpc = "exit" /\ report.kind = "browser_failed"
       /\ NoDownloads

\* after a rate limit of ddg the browser backend delivered the results
C4_Witness ==
  /\ Len(calls) = 2 /\ raised = <<RateLimit>>
  /\ rpc = "submit" /\ results # <<>>

\* C7: when run ends with the configuration error of the google engine, no
\* backend was called, no download job was started, no Session was created
\* and nothing was created on the filesystem.
C7_NoPartialWork ==
  report.kind = "config_error" =>
    /\ calls = <<>>
    /\ NoDownloads
    /\ \A t \in Threads : ~session[t]
    /\ ~dirMade

\* C8: every job of the download stage is run exactly once and gets one
\* outcome, whatever its siblings do; the report comes only after all jobs are
\* done and the workers are idle, and it shows the number of jobs whose
\* outcome is a path out of the number of results.
C8_JobsAggregated ==
  /\ \A i \in 1..Len(future) :
       /\ future[i].runs <= 1
       /\ future[i].state = "pending" <=> future[i].runs = 0
       /\ future[i].state # "done" => future[i].ret = NoFile
  /\ rpc \in {"submit", "collect"} => report = NoReport
  /\ report.kind = "saved" =>
       /\ Len(future) = Len(results) /\ results # <<>>
       /\ \A i \in 1..Len(future) : future[i].state = "done"
       /\ \A t \in Workers : dl[t].pc = "idle"
       /\ report.total = Len(results)
       /\ report.succeeded = Cardinality({i \in 1..Len(future) : future[i].ret # NoFile})

\* the first job failed for good and its sibling was saved
C8_Witness ==
  /\ report.kind = "saved" /\ report.total = 2 /\ report.succeeded = 1
  /\ future[1].ret = NoFile /\ future[2].ret # NoFile
  /\ choose_best_url(results[1]).url = U_plain

Pow2(n) == IF n = 0 THEN 1 ELSE IF n = 1 THEN 2 ELSE IF n = 2 THEN 4 ELSE 8

DdgRateLimitRaised ==
  be.pc = "raised" /\ raised # <<>> /\ raised[Len(raised)] = RateLimit

\* C11: in fetch_results_ddg every rate-limit signal but the fourth is
\* followed by one sleep and a new service call; the sleeps are 2 seconds
\* first and double with each retry, never above 30; there are at most 3
\* retries and 4 service calls; the fourth rate limit propagates without a
\* sleep; a call that is not rate-limited returns only what that call yielded.
C11_DdgBackoff ==
  be.name = "ddg" =>
    /\ be.svc <= DdgMaxRetries + 1 /\ Len(be.sleeps) <= DdgMaxRetries
    /\ \A i \in 1..Len(be.sleeps) :
         be.sleeps[i] = DdgFirstWait * Pow2(i - 1) /\ be.sleeps[i] <= DdgWaitCap
    /\ be.pc = "call" => be.svc = Len(be.sleeps) /\ be.attempt = Len(be.sleeps)
    /\ DdgRateLimitRaised =>
         be.svc = DdgMaxRetries + 1 /\ Len(be.sleeps) = DdgMaxRetries
    /\ be.pc = "returned" =>
         /\ be.svc = Len(be.sleeps) + 1
         /\ be.out = DdgCollect(ServiceItems(ItemPool, be.offered, 1), <<>>,
                                cfg.limit, cfg.min_width, cfg.min_height)

\* three retries were slept through and the fourth call was rate-limited too
C11_Witness ==
  /\ be.name = "ddg" /\ DdgRateLimitRaised
  /\ be.sleeps = <<2, 4, 8>> /\ be.svc = 4

\* --------------------------- specification: fetch_results_google_cse alone
\* the limits tried: one result, a page and a bit, the two and a half pages
\* of the documented example
CseLimits == {1, MaxCseLimit, 25}

InitCse ==
  /\ sel = NoSel
  /\ dl = [t \in Workers |-> IdleDl]
  /\ files = <<>>
  /\ session = [t \in Threads |-> t = 0]
  /\ sessCreated = [t \in Threads |-> IF t = 0 THEN 1 ELSE 0]
  /\ hist = <<>>
  /\ \E q \in {"dogs", "birds"}, l \in CseLimits :
       cfg = [engine |-> "google", key |-> TRUE, cx |-> TRUE, query |-> q, limit |-> l,
              max_concurrent |-> 1, min_width |-> 0, min_height |-> 0]
  /\ rpc = "cse" /\ dirMade = FALSE /\ results = <<>>
  /\ calls = <<>> /\ be = CseFrame /\ raised = <<>> /\ ex = NoExecutor /\ future = <<>>
  /\ report = NoReport

NextCse == fetch_results_google_cse

\* the loop of lines 149-179 keeps running: every request is answered or
\* fails within the timeout of line 162
SpecCse == InitCse /\ [][NextCse]_vars /\ WF_vars(NextCse)

C12Case == be.name = "google" /\ cfg.limit = 25 /\ cfg.query = "dogs"

\* C12 as stated: with limit 25 and every item acceptable, three requests
\* bring the 25 results, and no request follows a page that held fewer items
\* than were asked for.
C12_Original ==
  C12Case =>
    /\ be.full => be.reqs <= 3
    /\ (be.full /\ be.pc = "returned") => (be.reqs = 3 /\ Len(be.out) = 25)
    /\ ~be.afterShort

\* C12: with limit 25 and every item acceptable, pages that hold as many
\* items as were asked for are asked for as 10, 10 and 5 and the function
\* returns 25 results after the third; it returns with fewer than 25 results
\* only after an answer without items or with a status other than 200, or
\* when the offset has passed 91: a page that holds some items, but fewer
\* than asked for, is followed by the next request.
C12_Pages ==
  C12Case =>
    /\ be.full =>
         /\ be.reqs <= 3
         /\ Len(be.out) = Min(25, CsePageSize * be.reqs)
         /\ be.reqs >= 1 => be.num = Min(CsePageSize, 25 - CsePageSize * (be.reqs - 1))
         /\ be.pc = "returned" => (be.reqs = 3 /\ Len(be.out) = 25)
    /\ (be.pc = "returned" /\ Len(be.out) < 25 /\ be.start_index <= CseMaxStart) =>
         be.last \in {"empty", "status"}
    /\ (be.afterShort /\ be.last = "items") => be.start_index = be.prev + be.offered

\* three full pages were asked for and 25 results returned
C12_Witness ==
  /\ C12Case /\ be.full /\ be.pc = "returned"
  /\ be.reqs = 3 /\ be.num = 5 /\ Len(be.out) = 25

\* ------------------------------------------------------ claims on run, II
Unrecovered ==
  /\ raised # <<>>
  /\ raised[Len(raised)] # RateLimit \/ Len(raised) = 2

\* C13: when run has ended, a discovery failure that was not recovered from
\* shows in the report: an exception of a backend gives a failure report, a
\* search API answer with an error status gives neither the report of no
\* candidates nor the report of saved images; and the saved report counts
\* the jobs that returned a path out of all jobs.
C13_FailureReported ==
  rpc = "exit" =>
    /\ Unrecovered => report.kind \in {"search_failed", "browser_failed"}
    /\ be.failed => report.kind \notin {"no_results", "saved"}
    /\ report.kind = "saved" =>
         /\ report.total = Len(results)
         /\ report.succeeded = Cardinality({i \in 1..Len(future) : future[i].ret # NoFile})

\* the width and height of a result, a missing one counted as 0
ResultW(r) == IntOr(IntOr(r.width, r.image_width), 0)
ResultH(r) == IntOr(IntOr(r.height, r.image_height), 0)
MeetsMins(r) == ResultW(r) >= cfg.min_width /\ ResultH(r) >= cfg.min_height
FromBrowser == calls # <<>> /\ calls[Len(calls)].backend = "browser"

\* C14 as stated: when the selected engine is ddg or google, every result
\* handed to the download stage meets min_width and min_height.
C14_Original ==
  cfg.engine \in {"ddg", "google"} =>
    \A i \in 1..Len(results) : MeetsMins(results[i])

\* C14: every result that the ddg or the google backend returns, and that
\* run hands to the download stage, meets min_width and min_height; the
\* results of the browser backend are not filtered, whether browser is the
\* selected engine or the fallback of a rate-limited ddg run.
C14_Filtered ==
  /\ (be.name \in {"ddg", "google"} /\ be.pc = "returned") =>
       \A i \in 1..Len(be.out) : MeetsMins(be.out[i])
  /\ ~FromBrowser => \A i \in 1..Len(results) : MeetsMins(results[i])
  /\ (\E i \in 1..Len(results) : ~MeetsMins(results[i])) =>
       /\ FromBrowser
       /\ cfg.engine \in {"browser", "ddg"}
       /\ cfg.engine = "ddg" => (Len(calls) = 2 /\ raised = <<RateLimit>>)

\* ddg dropped the item below the minimums and handed on its neighbours
C14_Witness ==
  /\ cfg.engine = "ddg" /\ Len(calls) = 1 /\ rpc = "submit"
  /\ cfg.min_height = MaxDim
  /\ results = <<ItemPool[1], ItemPool[3]>>
  /\ ~MeetsMins(ItemPool[2])

BrLeft == be.pc \in {"returned", "raised"}

\* C15: once fetch_results_browser_google holds a driver, the driver is quit
\* exactly once when the function is left, by the return after limit results,
\* by the time budget, by the end of the page or by an exception; it is not
\* quit before, and no step of the function follows the quit.
C15_DriverReleased ==
  /\ [](be.name = "browser" =>
         /\ be.quits <= 1
         /\ be.pc = "acquire" => (be.driver = "none" /\ be.quits = 0)
         /\ be.pc \in {"goto", "scan"} => (be.driver = "open" /\ be.quits = 0)
         /\ BrLeft => be.exit \in {"limit", "timeout", "end", "raise"}
         /\ (BrLeft /\ be.driver # "none") => (be.driver = "quit" /\ be.quits = 1)
         /\ (BrLeft /\ be.driver = "none") => (be.exit = "raise" /\ be.quits = 0))
  /\ [][(be.name = "browser" /\ be.driver = "quit") =>
          (be'.name # "browser" \/ be' = be)]_vars

\* an exception while scanning, after a result was collected
C15_Witness ==
  /\ be.name = "browser" /\ be.exit = "raise" /\ be.pc = "raised"
  /\ be.driver = "quit" /\ be.quits = 1 /\ be.out # <<>>

\* C16: in the download stage every worker thread creates at most one
\* Session, at its first job that needs one, and every later job of the
\* thread gets that Session; two calls that run at the same time on
\* different threads never hold the same Session; the workers create no more
\* Sessions than max_concurrent.
C16_SessionPerWorker ==
  /\ \A t \in Threads : sessCreated[t] <= 1 /\ (session[t] <=> sessCreated[t] = 1)
  /\ \A t \in Workers :
       /\ t > ex.nthreads => ~session[t]
       /\ dl[t].sess # Null => (dl[t].sess = t /\ session[t])
       /\ dl[t].newSess <= sessCreated[t]
       /\ \A u \in Workers \ {t} : dl[t].sess # Null => dl[t].sess # dl[u].sess
  /\ Cardinality({t \in Workers : session[t]}) <= cfg.max_concurrent
  /\ SumSeq([t \in Workers |-> sessCreated[t]]) <= cfg.max_concurrent

\* a worker runs its second HTTP job with the Session its first job created
C16_Witness ==
  \E t \in Workers :
    /\ dl[t].pc = "get" /\ dl[t].idx = 1 /\ dl[t].newSess = 0 /\ dl[t].sess = t
    /\ future[1].state = "done" /\ sessCreated[t] = 1

\* C17: every request of fetch_results_google_cse carries a start offset
\* from 1 to 91 and a page size from 1 to 10; after a page with items the
\* next offset is the offset of the request plus the number of items of the
\* page, so the offsets of successive requests grow; the function returns
\* only when limit results are accepted, the offset has passed 91, a page
\* had no items or a response had a status other than 200, and in that last
\* case it returns the results accepted before, raising nothing; and the
\* pagination always ends.
C17_Pagination ==
  /\ [](be.name = "google" =>
         /\ be.reqs >= 1 =>
              /\ 1 <= be.prev /\ be.prev <= CseMaxStart
              /\ 1 <= be.num /\ be.num <= CsePageSize
         /\ be.last = "items" =>
              (be.offered >= 1 /\ be.start_index = be.prev + be.offered)
         /\ be.last \in {"empty", "status", "error"} => be.start_index = be.prev
         /\ be.pc = "returned" =>
              \/ Len(be.out) >= cfg.limit
              \/ be.start_index > CseMaxStart
              \/ be.last \in {"empty", "status"}
         /\ be.last = "status" => (be.pc = "returned" /\ raised = <<>>)
         /\ Len(be.out) <= cfg.limit)
  /\ [][(be.name = "google" /\ be'.name = "google" /\ be'.reqs = be.reqs + 1) =>
          /\ be.reqs >= 1 => be'.prev > be.prev
          /\ be'.last = "status" => be'.out = be.out]_vars
  /\ <>(be.pc # "loop")

\* the listing still had items when the offset passed 91 with fewer than
\* limit results
C17_Witness ==
  /\ be.name = "google" /\ be.pc = "returned" /\ be.last = "items"
  /\ be.start_index > CseMaxStart /\ Len(be.out) < cfg.limit /\ be.reqs > CsePageSize

\* C18: the scan loop of fetch_results_browser_google takes its end-of-page
\* exit only when the scan index has caught up with the thumbnail count and
\* the 6 latest scrolls in a row brought no new thumbnail; iterations that
\* click a thumbnail do not count towards the 6.
C18_EndOfPage ==
  (be.name = "browser" /\ be.exit = "end") =>
    /\ be.index >= be.page
    /\ be.dry >= BrMaxEmptyScrolls

\* ----------------------- specification: fetch_results_browser_google alone
InitBr ==
  /\ sel = NoSel
  /\ dl = [t \in Workers |-> IdleDl]
  /\ files = <<>>
  /\ session = [t \in Threads |-> FALSE]
  /\ sessCreated = [t \in Threads |-> 0]
  /\ hist = <<>>
  /\ \E l \in 1..MaxLimit, md \in MinDims :
       cfg = [engine |-> "browser", key |-> TRUE, cx |-> TRUE, query |-> "cats", limit |-> l,
              max_concurrent |-> 1, min_width |-> md[1], min_height |-> md[2]]
  /\ rpc = "browser" /\ dirMade = FALSE /\ results = <<>>
  /\ calls = <<>> /\ be = BrowserFrame /\ raised = <<>> /\ ex = NoExecutor /\ future = <<>>
  /\ report = NoReport

NextBr == fetch_results_browser_google

\* every browser call returns or raises, and every sleep ends
SpecBr == InitBr /\ [][NextBr]_vars /\ WF_vars(NextBr)

\* C19: the scan loop of fetch_results_browser_google always ends; on a page
\* where the thumbnail selector matches nothing the function leaves by the
\* time budget, once the elapsed time is above it, and returns an empty list
\* without raising; every click appends at most one result, so there are
\* never more results than thumbnails clicked.
C19_ScanTerminates ==
  /\ [](be.name = "browser" =>
         /\ Len(be.out) <= be.clicks /\ be.clicks = be.index
         /\ be.index <= be.page
         /\ be.exit = "timeout" => (be.elapsed > MaxTicks /\ be.pc = "returned")
         /\ (be.pc = "returned" /\ be.page = 0) =>
              (be.exit = "timeout" /\ be.out = <<>> /\ raised = <<>>))
  /\ <>(be.pc \in {"returned", "raised"})

\* nothing ever matched the thumbnail selector and the time ran out
C19_Witness ==
  /\ be.name = "browser" /\ be.pc = "returned" /\ be.page = 0
  /\ be.exit = "timeout" /\ be.elapsed > MaxTicks /\ be.out = <<>>

\* ----------------------------------------------------- claims on run, III
Named == {t \in Workers : dl[t].base # <<>>}

\* C20: in one run two jobs never have the same file name: two download_one
\* calls that run at the same time work on different names, every file is
\* created and written by one job only, the job whose path it is, and two
\* jobs never return the same path, also when they selected the same URL.
C20_DistinctNames ==
  /\ [](\A t \in Named : \A u \in Named \ {t} :
         /\ dl[t].idx # dl[u].idx
         /\ dl[t].base # dl[u].base
         /\ dl[t].out_file # NoFile => dl[t].out_file # dl[u].out_file)
  /\ [](\A t \in Named : dl[t].out_file \in DOMAIN files =>
         files[dl[t].out_file].by = dl[t].idx)
  /\ [](\A i \in 1..Len(future) :
         /\ future[i].ret # NoFile =>
              (future[i].ret \in DOMAIN files /\ files[future[i].ret].by = i - 1)
         /\ \A j \in 1..Len(future) :
              (i # j /\ future[i].ret # NoFile) => future[i].ret # future[j].ret)
  /\ [][\A f \in DOMAIN files : f \in DOMAIN files' /\ files'[f].by = files[f].by]_vars

\* two workers stream the same URL at the same time, each into its own file
C20_Witness ==
  \E t \in Workers : \E u \in Workers \ {t} :
    /\ dl[t].pc = "stream" /\ dl[u].pc = "stream"
    /\ dl[t].choice = dl[u].choice
    /\ dl[t].out_file # dl[u].out_file
    /\ {dl[t].out_file, dl[u].out_file} \subseteq DOMAIN files

====
